---- MODULE Spec2Model ----
(***************************************************************************)
(* A model of the tainted-value family of rlbox_api_cpp17:                 *)
(*   tainted_relocatable        (include/rlbox_tainted_relocatable.hpp)    *)
(*   tainted_volatile_standard  (include/rlbox_tainted_volatile_standard)  *)
(*   the sandbox_invoke tests   (tests/rlbox_unit_tests/test_invoke.cpp)   *)
(*                                                                         *)
(* Values are byte patterns: a value of a C++ integer type of n bytes is a *)
(* little-endian sequence of n bytes in two's complement.  Sandbox memory  *)
(* is an array of bytes indexed by sandbox offset.  Arithmetic and         *)
(* comparisons are done on patterns extended to WideLen bytes, so that 16, *)
(* 32 and 64 bit types keep their width.                                   *)
(***************************************************************************)
EXTENDS Integers, Sequences, FiniteSets, TLC

VARIABLES
  sandbox,        \* the rlbox_sandbox object: its ABI kind and whether it is created
  val1, val2,     \* the two arguments a test prepares for sandbox_invoke
  ret,            \* outcome of the last sandbox_invoke
  backend_calls,  \* ABI argument lists the backend function was entered with
  t_host,         \* a tainted<T> object of the host (tainted_relocatable)
  vol,            \* a tainted_volatile<T> the host holds a reference to
  conv,           \* outcome of the last conversion / assignment of the host
  heap_base,      \* host address of sandbox offset 0
  epoch,          \* relocation epoch of the sandbox heap
  heap,           \* sandbox memory, offset -> byte
  brk,            \* next free offset of the sandbox allocator
  old_bases,      \* heap bases of earlier epochs
  t_val,          \* tainted<int*> of the pointer test
  t_pp,           \* tainted<int**>: a pointer to a pointer kept in sandbox memory
  written,        \* the value last assigned through *t_val
  ptr_use,        \* outcome of the last pointer operation
  copy,           \* the host's copy of a tainted_volatile into a tainted
  writes,         \* values the sandboxed side stored at the copied location
  reads,          \* results of direct reads of the tainted_volatile location
  wrapper,        \* a tainted<T> object of any element type T
  calls,          \* the raw extractions made on wrapper, with their outcomes
  aborted         \* abort() was called: the process is gone

vars == <<sandbox, val1, val2, ret, backend_calls, t_host, vol, conv,
          heap_base, epoch, old_bases, heap, brk, t_val, t_pp, written, ptr_use,
          copy, writes, reads, wrapper, calls, aborted>>

invokeVars == <<sandbox, val1, val2, ret, backend_calls>>
convVars   == <<t_host, vol, conv>>
memVars    == <<heap_base, epoch, old_bases, heap, brk, t_val, t_pp, written, ptr_use>>
raceVars   == <<copy, writes, reads>>
fallbackVars == <<wrapper, calls, aborted>>

notInvokeVars == <<convVars, memVars, raceVars, fallbackVars>>
notConvVars   == <<invokeVars, memVars, raceVars, fallbackVars>>
notMemVars    == <<invokeVars, convVars, raceVars, fallbackVars>>
notRaceVars   == <<invokeVars, convVars, memVars, fallbackVars>>
notFallbackVars == <<invokeVars, convVars, memVars, raceVars>>

\* no object (a local not yet constructed, an operation not yet run)
None == [status |-> "none", op |-> "none"]

-----------------------------------------------------------------------------
(* Byte patterns and fixed-width two's complement arithmetic.              *)

\* Bytes of the widest pattern arithmetic is done on (more than 8, so that a
\* sum of two 64 bit values and a comparison across signedness are exact).
WideLen == 9

ByteMod == 256

RECURSIVE NatBytes(_, _)
\* little-endian bytes of the natural n, len of them
NatBytes(n, len) ==
  IF len = 0 THEN <<>> ELSE <<n % ByteMod>> \o NatBytes(n \div ByteMod, len - 1)

\* one's complement of a pattern
Invert(p) == [i \in 1..Len(p) |-> (ByteMod - 1) - p[i]]

\* the pattern of the integer n (|n| < 2^31) in len bytes, two's complement
IntBytes(n, len) ==
  IF n >= 0 THEN NatBytes(n, len) ELSE Invert(NatBytes((-n) - 1, len))

\* the sign bit of a pattern
TopBitSet(p) == p[Len(p)] >= ByteMod \div 2

\* sign- or zero-extension of a pattern to WideLen bytes
Ext(p, signed) ==
  [i \in 1..WideLen |->
     IF i <= Len(p) THEN p[i]
     ELSE IF signed /\ TopBitSet(p) THEN ByteMod - 1 ELSE 0]

\* the low n bytes of a pattern (the value modulo 2^(8n))
Trunc(w, n) == SubSeq(w, 1, n)

RECURSIVE LtFrom(_, _, _)
\* unsigned comparison of the bytes i, i-1, .., 1 of two patterns
LtFrom(a, b, i) ==
  IF i = 0 THEN FALSE
  ELSE IF a[i] # b[i] THEN a[i] < b[i]
  ELSE LtFrom(a, b, i - 1)

\* a < b for two wide patterns read as signed numbers
LtW(a, b) ==
  IF TopBitSet(a) # TopBitSet(b) THEN TopBitSet(a) ELSE LtFrom(a, b, WideLen)

RECURSIVE AddFrom(_, _, _, _)
\* bytes i..WideLen of a + b with the carry into byte i
AddFrom(a, b, i, carry) ==
  IF i > WideLen THEN <<>>
  ELSE <<(a[i] + b[i] + carry) % ByteMod>>
       \o AddFrom(a, b, i + 1, (a[i] + b[i] + carry) \div ByteMod)

\* a + b on wide patterns
AddW(a, b) == AddFrom(a, b, 1, 0)

-----------------------------------------------------------------------------
(* The fundamental types and the per-sandbox ABI table.                    *)

Types == {"int", "long", "uint16_t", "uint32_t", "uint64_t"}

IsSigned(ty) == ty \in {"int", "long"}

\* sizeof(T) on the host (LP64)
HostSize(ty) ==
  CASE ty = "int"      -> 4
    [] ty = "long"     -> 8
    [] ty = "uint16_t" -> 2
    [] ty = "uint32_t" -> 4
    [] ty = "uint64_t" -> 8
    [] ty = "int*"     -> 8

SandboxKinds == {"test", "test_smallerabi", "test_widerabi"}

\* sizeof(rlbox_base_types_convertor<T, TSbx>): the sandbox's representation.
\* Fixed-width types keep their width; int and long follow the sandbox.
SbxSize(kind, ty) ==
  CASE kind = "test_smallerabi" /\ ty = "int"  -> 2
    [] kind = "test_smallerabi" /\ ty = "long" -> 4
    [] kind = "test_widerabi" /\ ty = "int"    -> 8
    [] kind = "test_ptr" /\ ty = "int*"       -> 4
    [] OTHER -> HostSize(ty)

\* std::numeric_limits<T>::min() and max() of an n byte type, as wide patterns
MinW(n, signed) ==
  IF signed THEN Ext([i \in 1..n |-> IF i = n THEN ByteMod \div 2 ELSE 0], TRUE)
  ELSE Ext([i \in 1..n |-> 0], FALSE)

MaxW(n, signed) ==
  IF signed
  THEN Ext([i \in 1..n |-> IF i = n THEN (ByteMod \div 2) - 1 ELSE ByteMod - 1], TRUE)
  ELSE Ext([i \in 1..n |-> ByteMod - 1], FALSE)

InRange(w, n, signed) == ~LtW(w, MinW(n, signed)) /\ ~LtW(MaxW(n, signed), w)

\* detail::convert_type_fundamental<TTo>(from): a range check, then a cast
\* that adjusts the width.  A failed check is a conversion error.
convert_type_fundamental(toSize, from, signed) ==
  IF InRange(Ext(from, signed), toSize, signed)
  THEN [ok |-> TRUE, val |-> Trunc(Ext(from, signed), toSize)]
  ELSE [ok |-> FALSE, val |-> <<>>]

-----------------------------------------------------------------------------
(* tainted_relocatable<T, TSbx> for fundamental T: a host copy, kept in    *)
(* the host representation.                                                *)

\* a plausible slip: the member initialiser is dropped and data is zeroed
tainted_relocatable_zeroed(ty, aOther) ==
  [ty |-> ty, data |-> [i \in 1..Len(aOther) |-> 0]]

\* tainted_relocatable(const T& aOther) : data(aOther) {}
tainted_relocatable(ty, aOther) == [ty |-> ty, data |-> aOther]

\* raw_host_rep(): return data
raw_host_rep(t) == t.data

\* a plausible slip: a plain static_cast, with no range check
raw_sandboxed_rep_cast(kind, t) ==
  [ok |-> TRUE, val |-> Trunc(Ext(t.data, IsSigned(t.ty)), SbxSize(kind, t.ty))]

\* raw_sandboxed_rep(): convert_type_fundamental<value_type_t<TSbxRep>>(data)
raw_sandboxed_rep(kind, t) ==
  convert_type_fundamental(SbxSize(kind, t.ty), t.data, IsSigned(t.ty))

\* tainted_relocatable::UNSAFE_unverified()
tainted_UNSAFE_unverified(t) == raw_host_rep(t)

\* tainted_relocatable::UNSAFE_sandboxed()
tainted_UNSAFE_sandboxed(kind, t) == raw_sandboxed_rep(kind, t)

-----------------------------------------------------------------------------
(* tainted_volatile_standard<T, TSbx>: the object is the sandbox memory    *)
(* itself; its one field, data, is in the sandbox's representation.        *)

\* a plausible slip: the sandbox value is widened as if it were unsigned
tainted_volatile_UNSAFE_unverified_unsigned(ty, data) ==
  convert_type_fundamental(HostSize(ty), data, FALSE)

\* UNSAFE_unverified(): convert_type_fundamental<value_type_t<T>>(data)
tainted_volatile_UNSAFE_unverified(ty, data) ==
  convert_type_fundamental(HostSize(ty), data, IsSigned(ty))

\* UNSAFE_sandboxed(): return data
tainted_volatile_UNSAFE_sandboxed(data) == data

\* tainted_relocatable(const TWrap<TOther, TSbx>& aOther) : data(aOther.raw_host_rep())
\* for a tainted_volatile aOther, whose host representation is its
\* UNSAFE_unverified()
tainted_relocatable_from_wrapper(ty, aOtherData) ==
  LET r == tainted_volatile_UNSAFE_unverified(ty, aOtherData)
  IN  IF r.ok THEN [ok |-> TRUE, t |-> [ty |-> ty, data |-> r.val]]
      ELSE [ok |-> FALSE, t |-> None]

\* a plausible slip: the value is stored by a cast, with no range check
volatile_assign_wrapper_unchecked(kind, old, aOther) ==
  {[status |-> "returned",
    data |-> Trunc(Ext(aOther.data, IsSigned(aOther.ty)), SbxSize(kind, aOther.ty))]}

\* operator=(const TWrap<T, TSbx>& aOther) { data = aOther.raw_sandbox_rep(); }
\* (the call is to the tainted wrapper's raw_sandboxed_rep).  The function
\* has no return statement: flowing off its end is undefined, and a build
\* either returns to the caller after the store, traps after the store, or
\* treats the end as unreachable and drops the store.  The result is the set
\* of outcomes: the status and the bytes of data afterwards.
volatile_assign_wrapper(kind, old, aOther) ==
  LET r == raw_sandboxed_rep(kind, aOther)
  IN  IF ~r.ok THEN {[status |-> "conversion_error", data |-> old]}
      ELSE {[status |-> "returned", data |-> r.val],
            [status |-> "trap", data |-> r.val],
            [status |-> "elided", data |-> old]}

\* operator=(const TOther& aOther): tainted_tother_t tainted_other(aOther);
\* *this = tainted_other; return *this;
volatile_assign_raw(kind, ty, old, aOther) ==
  volatile_assign_wrapper(kind, old, tainted_relocatable(ty, aOther))

-----------------------------------------------------------------------------
(* The sandboxed functions of test_invoke.cpp and sandbox_invoke.          *)

\* a plausible slip: the sum is returned without the conversion to the
\* declared return type
test_add_unconverted(ty, size, aVal1, aVal2) ==
  {[trap |-> FALSE,
    val |-> Trunc(AddW(Ext(aVal1, IsSigned(ty)), Ext(aVal2, IsSigned(ty))), size + 1)]}

\* test_add_int, test_add_long, test_add_uint16_t, test_add_uint32_t,
\* test_add_uint64_t: return aVal1 + aVal2, in the sandbox's types.  The
\* unsigned sum is reduced modulo 2^(8*size) by the conversion to the return
\* type.  A signed sum out of range is undefined: the build either wraps or
\* traps.  The result is the set of outcomes.
test_add(ty, size, aVal1, aVal2) ==
  LET sum == AddW(Ext(aVal1, IsSigned(ty)), Ext(aVal2, IsSigned(ty)))
  IN  IF IsSigned(ty) /\ ~InRange(sum, size, TRUE)
      THEN {[trap |-> FALSE, val |-> Trunc(sum, size)], [trap |-> TRUE, val |-> <<>>]}
      ELSE {[trap |-> FALSE, val |-> Trunc(sum, size)]}

\* the type and the host value of an argument of a test
ArgType(a) == IF a.kind = "tainted" THEN a.t.ty ELSE a.ty
ArgValue(a) == IF a.kind = "tainted" THEN a.t.data ELSE a.v

\* lowering one argument: a tainted argument by UNSAFE_sandboxed, a raw
\* argument by wrapping it in a tainted value first
invoke_process_param(kind, a) ==
  IF a.kind = "tainted" THEN tainted_UNSAFE_sandboxed(kind, a.t)
  ELSE tainted_UNSAFE_sandboxed(kind, tainted_relocatable(a.ty, a.v))

\* raising the ABI result into tainted<ReturnType>
invoke_process_return(ty, abiRet) ==
  convert_type_fundamental(HostSize(ty), abiRet, IsSigned(ty))

\* the values a test passes, per type, as host patterns
ArgValues(ty) ==
  CASE ty = "int"  -> {IntBytes(5, 4), IntBytes(7, 4), IntBytes(-3, 4),
                       IntBytes(40000, 4), IntBytes(2147483647, 4)}
    [] ty = "long" -> {IntBytes(5, 8), IntBytes(7, 8), IntBytes(-3, 8),
                       <<0, 0, 0, 128, 0, 0, 0, 0>>,
                       <<255, 255, 255, 255, 255, 255, 255, 127>>}
    [] OTHER -> {IntBytes(5, HostSize(ty)), IntBytes(7, HostSize(ty)),
                 [i \in 1..HostSize(ty) |-> ByteMod - 1]}

-----------------------------------------------------------------------------
(* The state after construction; each specification below starts here.     *)

\* heap bytes of the sandbox (two ints)
HeapSize == 8

\* host addresses the backend may place the heap at
HeapBases == {16, 32, 48}

\* the heap base the backend starts with
InitialHeapBase == 16

InitInvoke ==
  /\ sandbox = [kind |-> "test", created |-> FALSE]
  /\ val1 = None
  /\ val2 = None
  /\ ret = None
  /\ backend_calls = <<>>

InitConv ==
  /\ t_host = None
  /\ vol = None
  /\ conv = None

InitMem ==
  /\ heap_base = InitialHeapBase
  /\ epoch = 0
  /\ heap = [o \in 0..(HeapSize - 1) |-> 0]
  /\ old_bases = {}
  /\ brk = 0
  /\ t_val = None
  /\ t_pp = None
  /\ written = None
  /\ ptr_use = None

InitRace ==
  /\ copy = None
  /\ writes = <<>>
  /\ reads = <<>>

InitFallback ==
  /\ wrapper = None
  /\ calls = <<>>
  /\ aborted = FALSE

Init == InitInvoke /\ InitConv /\ InitMem /\ InitRace /\ InitFallback

-----------------------------------------------------------------------------
(* The steps of the sandbox_invoke tests (test_invoke.cpp).                *)

\* rlbox_sandbox_test sandbox; sandbox.create_sandbox();
create_sandbox(kind) ==
  /\ ~sandbox.created
  /\ sandbox' = [kind |-> kind, created |-> TRUE]
  /\ UNCHANGED <<val1, val2, ret, backend_calls>>
  /\ UNCHANGED notInvokeVars

\* sandbox.destroy_sandbox(); the test case and its locals end
destroy_sandbox ==
  /\ sandbox.created
  /\ sandbox' = [sandbox EXCEPT !.created = FALSE]
  /\ val1' = None
  /\ val2' = None
  /\ ret' = None
  /\ backend_calls' = <<>>
  /\ UNCHANGED notInvokeVars

\* tainted_test<T> val1 = v;
TaintedVal1(ty, v) ==
  /\ sandbox.created /\ val1 = None /\ ret = None
  /\ val1' = [kind |-> "tainted", t |-> tainted_relocatable(ty, v)]
  /\ UNCHANGED <<sandbox, val2, ret, backend_calls>>
  /\ UNCHANGED notInvokeVars

\* T val1 = v;
RawVal1(ty, v) ==
  /\ sandbox.created /\ val1 = None /\ ret = None
  /\ val1' = [kind |-> "raw", ty |-> ty, v |-> v]
  /\ UNCHANGED <<sandbox, val2, ret, backend_calls>>
  /\ UNCHANGED notInvokeVars

\* tainted_test<T> val2 = v; of the type of val1, as the function's signature asks
TaintedVal2(v) ==
  /\ val1 # None /\ val2 = None /\ ret = None
  /\ v \in ArgValues(ArgType(val1))
  /\ val2' = [kind |-> "tainted", t |-> tainted_relocatable(ArgType(val1), v)]
  /\ UNCHANGED <<sandbox, val1, ret, backend_calls>>
  /\ UNCHANGED notInvokeVars

\* T val2 = v;
RawVal2(v) ==
  /\ val1 # None /\ val2 = None /\ ret = None
  /\ v \in ArgValues(ArgType(val1))
  /\ val2' = [kind |-> "raw", ty |-> ArgType(val1), v |-> v]
  /\ UNCHANGED <<sandbox, val1, ret, backend_calls>>
  /\ UNCHANGED notInvokeVars

\* ret = sandbox_invoke(sandbox, test_add_T, val1, val2): the arguments are
\* lowered, the backend runs the function on the ABI values, the result is
\* raised into a tainted value
sandbox_invoke ==
  /\ sandbox.created /\ val1 # None /\ val2 # None /\ ret = None
  /\ LET ty == ArgType(val1)
         l1 == invoke_process_param(sandbox.kind, val1)
         l2 == invoke_process_param(sandbox.kind, val2)
     IN  IF ~l1.ok \/ ~l2.ok
         THEN /\ ret' = [status |-> "conversion_error", stage |-> "args", ty |-> ty]
              /\ backend_calls' = <<>>
         ELSE \E r \in test_add(ty, SbxSize(sandbox.kind, ty), l1.val, l2.val) :
                /\ backend_calls' = <<[aVal1 |-> l1.val, aVal2 |-> l2.val]>>
                /\ IF r.trap
                   THEN ret' = [status |-> "trap", stage |-> "backend", ty |-> ty]
                   ELSE LET h == invoke_process_return(ty, r.val)
                        IN  IF h.ok
                            THEN ret' = [status |-> "ok", stage |-> "done", ty |-> ty,
                                         abi |-> r.val,
                                         t |-> tainted_relocatable(ty, h.val)]
                            ELSE ret' = [status |-> "conversion_error",
                                         stage |-> "return", ty |-> ty, abi |-> r.val]
  /\ UNCHANGED <<sandbox, val1, val2>>
  /\ UNCHANGED notInvokeVars

NextInvoke ==
  \/ \E kind \in SandboxKinds : create_sandbox(kind)
  \/ destroy_sandbox
  \/ \E ty \in Types : \E v \in ArgValues(ty) : TaintedVal1(ty, v)
  \/ \E ty \in Types : \E v \in ArgValues(ty) : RawVal1(ty, v)
  \/ \E v \in UNION {ArgValues(ty) : ty \in Types} : TaintedVal2(v)
  \/ \E v \in UNION {ArgValues(ty) : ty \in Types} : RawVal2(v)
  \/ sandbox_invoke

SpecInvoke == Init /\ [][NextInvoke]_vars

-----------------------------------------------------------------------------
(* Claims on sandbox_invoke, checked under SpecInvoke.                     *)

\* the exact sum of the two host arguments of the last call
HostSum == AddW(Ext(ArgValue(val1), IsSigned(ret.ty)), Ext(ArgValue(val2), IsSigned(ret.ty)))

\* C1: on a created test sandbox, for a signed integer type and arguments
\* whose sum is in the type's range, sandbox_invoke of the add function
\* returns a tainted value whose UNSAFE_unverified() is the sum, whichever of
\* the two arguments is passed tainted and whichever raw.
C1_InvokeAddsSignedInts ==
  (/\ ret # None
   /\ sandbox.kind = "test"
   /\ IsSigned(ret.ty)
   /\ InRange(HostSum, HostSize(ret.ty), TRUE))
  => /\ ret.status = "ok"
     /\ Ext(tainted_UNSAFE_unverified(ret.t), TRUE) = HostSum

\* C1 witness: a raw 5 and a tainted 7 gave 12
C1_Witness ==
  /\ ret # None /\ ret.status = "ok" /\ ret.ty = "int" /\ sandbox.kind = "test"
  /\ val1.kind = "raw" /\ ArgValue(val1) = IntBytes(5, 4)
  /\ val2.kind = "tainted" /\ ArgValue(val2) = IntBytes(7, 4)
  /\ tainted_UNSAFE_unverified(ret.t) = IntBytes(12, 4)

UnsignedTypes == {"uint16_t", "uint32_t", "uint64_t"}

\* std::numeric_limits<T>::max() of an unsigned type, as a host pattern
UnsignedMax(ty) == [i \in 1..HostSize(ty) |-> ByteMod - 1]

\* the state the u16 / u32 / u64 tests check their result in
SmallerAbiMaxPlusFive ==
  /\ ret # None
  /\ sandbox.kind = "test_smallerabi"
  /\ ret.ty \in UnsignedTypes
  /\ val1.kind = "tainted" /\ ArgValue(val1) = UnsignedMax(ret.ty)
  /\ val2.kind = "tainted" /\ ArgValue(val2) = IntBytes(5, HostSize(ret.ty))

\* C2: on the smaller-ABI sandbox, adding the tainted values 2^w - 1 and 5 of
\* the unsigned type of width w completes without a conversion error and
\* returns (2^w - 1 + 5) mod 2^w, which is 4.
C2_SmallerAbiUnsignedWraps ==
  SmallerAbiMaxPlusFive
  => /\ ret.status = "ok"
     /\ tainted_UNSAFE_unverified(ret.t) = IntBytes(4, HostSize(ret.ty))
     /\ tainted_UNSAFE_unverified(ret.t) = Trunc(HostSum, HostSize(ret.ty))

\* C2 witness: the 64 bit case was run
C2_Witness == SmallerAbiMaxPlusFive /\ ret.ty = "uint64_t" /\ ret.status = "ok"

\* both host arguments of the last call fit the sandbox's type
ArgsFit ==
  /\ InRange(Ext(ArgValue(val1), IsSigned(ret.ty)), SbxSize(sandbox.kind, ret.ty), IsSigned(ret.ty))
  /\ InRange(Ext(ArgValue(val2), IsSigned(ret.ty)), SbxSize(sandbox.kind, ret.ty), IsSigned(ret.ty))

\* C10: in sandbox_invoke an argument that fails the range check gives a
\* conversion error and the backend is not entered; a result that fails the
\* range check gives a conversion error after the backend call; the values
\* the backend receives and the value the caller receives are exact, never
\* narrowed or wrapped.
C10_InvokeNeverNarrows ==
  ret # None =>
    /\ ~ArgsFit => (ret.status = "conversion_error" /\ ret.stage = "args"
                    /\ backend_calls = <<>>)
    /\ ret.stage = "args" => ~ArgsFit
    /\ backend_calls # <<>> =>
         /\ Ext(backend_calls[1].aVal1, IsSigned(ret.ty)) = Ext(ArgValue(val1), IsSigned(ret.ty))
         /\ Ext(backend_calls[1].aVal2, IsSigned(ret.ty)) = Ext(ArgValue(val2), IsSigned(ret.ty))
    /\ ret.stage \in {"done", "return"} =>
         /\ backend_calls # <<>>
         /\ (ret.status = "conversion_error"
               <=> ~InRange(Ext(ret.abi, IsSigned(ret.ty)), HostSize(ret.ty), IsSigned(ret.ty)))
    /\ ret.status = "ok" =>
         Ext(tainted_UNSAFE_unverified(ret.t), IsSigned(ret.ty)) = Ext(ret.abi, IsSigned(ret.ty))

\* C10 witness: the result of a backend call did not fit the host type
C10_Witness ==
  /\ ret # None /\ ret.stage = "return" /\ ret.status = "conversion_error"
  /\ backend_calls # <<>>

\* C10, second witness state: an argument did not fit and the call was dropped
C10_ArgsRejected ==
  /\ ret # None /\ ret.stage = "args" /\ sandbox.kind = "test_smallerabi"
  /\ backend_calls = <<>>

-----------------------------------------------------------------------------
(* Conversions between the host and a tainted_volatile location.           *)

\* the program runs: no trap has ended it
Running == conv.status # "trap"

\* contents sandboxed code may have left in a location of n bytes
VolValues(n) ==
  {IntBytes(0, n), IntBytes(5, n), [i \in 1..n |-> ByteMod - 1],
   [i \in 1..n |-> IF i = n THEN (ByteMod \div 2) - 1 ELSE ByteMod - 1]}

\* tainted<T> t = v;
ConstructTainted(ty, v) ==
  /\ sandbox.created /\ Running /\ t_host = None
  /\ t_host' = tainted_relocatable(ty, v)
  /\ conv' = [op |-> "construct", status |-> "ok", v |-> v]
  /\ UNCHANGED <<vol>>
  /\ UNCHANGED <<invokeVars, memVars, raceVars, fallbackVars>>

\* t.UNSAFE_sandboxed()
LowerTainted ==
  /\ t_host # None /\ Running
  /\ LET r == tainted_UNSAFE_sandboxed(sandbox.kind, t_host)
     IN  conv' = [op |-> "UNSAFE_sandboxed",
                  status |-> IF r.ok THEN "ok" ELSE "conversion_error",
                  v |-> t_host.data, val |-> r.val]
  /\ UNCHANGED <<t_host, vol>>
  /\ UNCHANGED <<invokeVars, memVars, raceVars, fallbackVars>>

\* the host obtains a reference to a tainted_volatile<T> in sandbox memory
LocateVolatile(ty, data) ==
  /\ sandbox.created /\ Running /\ vol = None
  /\ vol' = [ty |-> ty, data |-> data]
  /\ conv' = [op |-> "locate", status |-> "ok"]
  /\ UNCHANGED <<t_host>>
  /\ UNCHANGED <<invokeVars, memVars, raceVars, fallbackVars>>

\* vol = v; for a raw v of the type T
AssignRaw(v) ==
  /\ vol # None /\ Running
  /\ v \in ArgValues(vol.ty)
  /\ \E o \in volatile_assign_raw(sandbox.kind, vol.ty, vol.data, v) :
       /\ vol' = [vol EXCEPT !.data = o.data]
       /\ conv' = [op |-> "assign_raw", status |-> o.status, v |-> v,
                   before |-> vol.data]
  /\ UNCHANGED <<t_host>>
  /\ UNCHANGED <<invokeVars, memVars, raceVars, fallbackVars>>

\* vol = t; for a tainted t of the type T
AssignWrapper ==
  /\ vol # None /\ t_host # None /\ Running
  /\ t_host.ty = vol.ty
  /\ \E o \in volatile_assign_wrapper(sandbox.kind, vol.data, t_host) :
       /\ vol' = [vol EXCEPT !.data = o.data]
       /\ conv' = [op |-> "assign_wrapper", status |-> o.status,
                   v |-> t_host.data, before |-> vol.data]
  /\ UNCHANGED <<t_host>>
  /\ UNCHANGED <<invokeVars, memVars, raceVars, fallbackVars>>

\* vol.UNSAFE_unverified()
ReadVolatile ==
  /\ vol # None /\ Running
  /\ LET r == tainted_volatile_UNSAFE_unverified(vol.ty, vol.data)
     IN  conv' = [op |-> "UNSAFE_unverified",
                  status |-> IF r.ok THEN "ok" ELSE "conversion_error",
                  val |-> r.val]
  /\ UNCHANGED <<t_host, vol>>
  /\ UNCHANGED <<invokeVars, memVars, raceVars, fallbackVars>>

\* tainted<T> t = v; e = t.UNSAFE_sandboxed(); and, for a location holding
\* e, its UNSAFE_unverified()
RoundTrip(ty, v) ==
  /\ sandbox.created /\ Running /\ t_host = None /\ vol = None
  /\ LET e == tainted_UNSAFE_sandboxed(sandbox.kind, tainted_relocatable(ty, v))
     IN  conv' = [op |-> "roundtrip", status |-> "ok", ty |-> ty, v |-> v,
                  lowered |-> e,
                  raised |-> IF e.ok THEN tainted_volatile_UNSAFE_unverified(ty, e.val)
                             ELSE e]
  /\ UNCHANGED <<t_host, vol>>
  /\ UNCHANGED <<invokeVars, memVars, raceVars, fallbackVars>>

NextConv ==
  \/ \E kind \in SandboxKinds : create_sandbox(kind)
  \/ \E ty \in Types : \E v \in ArgValues(ty) : ConstructTainted(ty, v)
  \/ LowerTainted
  \/ \E ty \in Types : \E data \in VolValues(SbxSize(sandbox.kind, ty)) :
       LocateVolatile(ty, data)
  \/ \E v \in UNION {ArgValues(ty) : ty \in Types} : AssignRaw(v)
  \/ AssignWrapper
  \/ ReadVolatile
  \/ \E ty \in Types : \E v \in ArgValues(ty) : RoundTrip(ty, v)

SpecConv == Init /\ [][NextConv]_vars

-----------------------------------------------------------------------------
(* Claims on the conversions, checked under SpecConv.                      *)

\* the host value v of the type ty fits the sandbox's representation of ty
FitsSandbox(ty, v) ==
  InRange(Ext(v, IsSigned(ty)), SbxSize(sandbox.kind, ty), IsSigned(ty))

\* C4: for every fundamental type T and every value v of T, lowering v to
\* the sandbox representation succeeds exactly when v fits the sandbox's
\* width, and raising the lowered value back yields exactly v.
C4_RoundTrip ==
  conv.op = "roundtrip" =>
    /\ conv.lowered.ok <=> FitsSandbox(conv.ty, conv.v)
    /\ conv.lowered.ok => (conv.raised.ok /\ conv.raised.val = conv.v)

\* C4 witness: a negative int went through the two byte int of the smaller
\* ABI and came back
C4_Witness ==
  /\ conv.op = "roundtrip" /\ sandbox.kind = "test_smallerabi"
  /\ conv.ty = "int" /\ conv.v = IntBytes(-3, 4)
  /\ conv.lowered.ok /\ conv.lowered.val = IntBytes(-3, 2)
  /\ conv.raised.val = IntBytes(-3, 4)

\* C5 as stated: constructing a tainted value from a raw host value outside
\* the sandbox type's range reports a conversion error, and so does assigning
\* such a value into a tainted_volatile, without writing sandbox memory.
C5_ConstructionRejectsOutOfRange ==
  /\ (conv.op = "construct" /\ ~FitsSandbox(t_host.ty, conv.v))
       => conv.status = "conversion_error"
  /\ (conv.op = "assign_raw" /\ ~FitsSandbox(vol.ty, conv.v))
       => (conv.status = "conversion_error" /\ vol.data = conv.before)

\* C5 amended: the construction succeeds and keeps the host value as it is;
\* the conversion error is reported when the value is lowered, by
\* UNSAFE_sandboxed or by an assignment into a tainted_volatile, and then the
\* location keeps its bytes; an assignment never leaves a truncated value.
C5_RangeCheckedAtLowering ==
  /\ conv.op = "construct" => (conv.status = "ok" /\ t_host.data = conv.v)
  /\ (conv.op = "UNSAFE_sandboxed" /\ ~FitsSandbox(t_host.ty, conv.v))
       => conv.status = "conversion_error"
  /\ conv.op \in {"assign_raw", "assign_wrapper"} =>
       /\ ~FitsSandbox(vol.ty, conv.v)
            => (conv.status = "conversion_error" /\ vol.data = conv.before)
       /\ \/ vol.data = conv.before
          \/ Ext(vol.data, IsSigned(vol.ty)) = Ext(conv.v, IsSigned(vol.ty))

\* C5 witness: a raw int outside the two byte int of the smaller ABI was
\* assigned into a location, and was rejected
C5_Witness ==
  /\ conv.op = "assign_raw" /\ sandbox.kind = "test_smallerabi"
  /\ vol.ty = "int" /\ conv.v = IntBytes(40000, 4)
  /\ conv.status = "conversion_error" /\ vol.data = conv.before

-----------------------------------------------------------------------------
(* Sandbox memory, pointers and relocation (rlbox_sandbox_test_ptr).       *)

\* relocations a run of the model goes through
MaxEpoch == 2

\* elements sandbox_invoke is asked to sum
MaxCount == 2

\* the values a test writes through a tainted pointer
IntValues == {IntBytes(3, 4), IntBytes(-259, 4)}

RECURSIVE BytesNat(_)
\* the number an unsigned pattern stands for
BytesNat(p) ==
  IF p = <<>> THEN 0 ELSE p[1] + ByteMod * BytesNat(Tail(p))

\* memcpy(&copy, aSandboxMemory + o, n)
ReadBytes(h, o, n) == [i \in 1..n |-> h[o + i - 1]]

\* the n bytes at offset o replaced by the pattern p
WriteBytes(h, o, p) ==
  [x \in DOMAIN h |-> IF x >= o /\ x < o + Len(p) THEN p[x - o + 1] ELSE h[x]]

\* offset_to_host: the host address of a sandbox offset, from the heap base
\* the sandbox has now
get_unsandboxed_pointer(base, data) == base + BytesNat(data)

\* host_to_offset: a bounds error unless the address lies in the heap
get_sandboxed_pointer(base, addr) ==
  IF addr >= base /\ addr < base + HeapSize
  THEN [ok |-> TRUE, off |-> addr - base]
  ELSE [ok |-> FALSE, off |-> 0]

\* operator* of tainted<T*>: the tainted_volatile<T> at the host address the
\* sandbox translates the held offset to
tainted_deref(base, t) == get_unsandboxed_pointer(base, IntBytes(t.off, SbxSize("test_ptr", "int*")))

\* tainted<T*>(T* aOther): the held offset is the sandbox's translation of
\* the host pointer
tainted_pointer(base, aOther) == get_sandboxed_pointer(base, aOther)

\* a plausible slip: translation from a heap base saved at creation
tainted_volatile_UNSAFE_unverified_ptr_cached(base, data) ==
  get_unsandboxed_pointer(InitialHeapBase, data)

\* a plausible slip: the stored offset is returned as the host pointer
tainted_volatile_UNSAFE_unverified_ptr_raw(base, data) == BytesNat(data)

\* UNSAFE_unverified(rlbox_sandbox<TSbx>& aSandbox) for a pointer T:
\* return aSandbox.get_unsandboxed_pointer(data)
tainted_volatile_UNSAFE_unverified_ptr(base, data) ==
  get_unsandboxed_pointer(base, data)

\* operator*(): auto data_tainted_volatile = (TOpDeref*)data;
\* the host address of the tainted_volatile the result refers to
tainted_volatile_deref(data) == BytesNat(data)

\* operator&(): auto* data_ptr = (std::add_pointer_t<T>)&data;
\* TOpAddrOf ret(data_ptr); for the tainted_volatile at the host address addr
tainted_volatile_addr_of(base, addr) == tainted_pointer(base, addr)

RECURSIVE test_array_arg_sum(_, _, _, _)
\* the loop of test_array_arg_internal from index i on: memcpy(&copy,
\* arr + sizeof(int) * i, sizeof(int)); sum = TSbxInt(sum + copy)
test_array_arg_sum(aSandboxMemory, arr, aCount, i) ==
  IF i >= aCount THEN IntBytes(0, 4)
  ELSE Trunc(AddW(Ext(ReadBytes(aSandboxMemory, arr + HostSize("int") * i, HostSize("int")), TRUE),
                  Ext(test_array_arg_sum(aSandboxMemory, arr, aCount, i + 1), TRUE)),
             HostSize("int"))

\* test_array_arg_internal(aSandboxMemory, aArrIdx, aCount)
test_array_arg_internal(aSandboxMemory, aArrIdx, aCount) ==
  test_array_arg_sum(aSandboxMemory, BytesNat(aArrIdx), BytesNat(aCount), 0)

\* the program runs: no trap or fault has ended it
MemRunning == ptr_use.status \notin {"trap", "fault"}

\* the test is still setting memory up: it has not yet looked at a result
SettingUp == MemRunning /\ ptr_use.op \in {"none", "write", "store_pointer"}

\* the sandbox's representation of the offset a tainted<int*> holds
PointerRep(t) == IntBytes(t.off, SbxSize("test_ptr", "int*"))

\* tainted_test_ptr<int*> t_val = sandbox.malloc_in_sandbox<int>();
malloc_in_sandbox_int ==
  /\ sandbox.created /\ SettingUp /\ t_val = None
  /\ brk + SbxSize("test_ptr", "int") <= HeapSize
  /\ t_val' = [status |-> "ok", off |-> brk, epoch |-> epoch]
  /\ brk' = brk + SbxSize("test_ptr", "int")
  /\ UNCHANGED <<heap_base, epoch, old_bases, heap, t_pp, written, ptr_use>>
  /\ UNCHANGED <<sandbox, val1, val2, ret, backend_calls, convVars, raceVars, fallbackVars>>

\* tainted_test_ptr<int**> t_pp = sandbox.malloc_in_sandbox<int*>();
malloc_in_sandbox_ptr ==
  /\ sandbox.created /\ SettingUp /\ t_pp = None
  /\ brk + SbxSize("test_ptr", "int*") <= HeapSize
  /\ t_pp' = [status |-> "ok", off |-> brk, epoch |-> epoch]
  /\ brk' = brk + SbxSize("test_ptr", "int*")
  /\ UNCHANGED <<heap_base, epoch, old_bases, heap, t_val, written, ptr_use>>
  /\ UNCHANGED <<sandbox, val1, val2, ret, backend_calls, convVars, raceVars, fallbackVars>>

\* *t_val = v;  operator* of the tainted pointer, then operator=(const
\* TOther&) of the tainted_volatile<int> it refers to
WriteThroughPointer(v) ==
  /\ t_val # None /\ SettingUp
  /\ LET off == tainted_deref(heap_base, t_val) - heap_base
     IN  \E o \in volatile_assign_raw(sandbox.kind, "int",
                                      ReadBytes(heap, off, SbxSize(sandbox.kind, "int")), v) :
           /\ heap' = WriteBytes(heap, off, o.data)
           /\ written' = IF o.status = "trap" THEN written
                         ELSE [status |-> "ok", v |-> v]
           /\ ptr_use' = [op |-> "write",
                          status |-> IF o.status = "trap" THEN "trap" ELSE "ok"]
  /\ UNCHANGED <<heap_base, epoch, old_bases, brk, t_val, t_pp>>
  /\ UNCHANGED <<sandbox, val1, val2, ret, backend_calls, convVars, raceVars, fallbackVars>>

\* *t_pp = t_val;  operator=(const TWrap<T, TSbx>&) of the
\* tainted_volatile<int*> t_pp points to
StorePointer ==
  /\ t_val # None /\ t_pp # None /\ SettingUp
  /\ LET off == tainted_deref(heap_base, t_pp) - heap_base
     IN  \E o \in volatile_assign_wrapper(sandbox.kind,
                    ReadBytes(heap, off, SbxSize(sandbox.kind, "int*")),
                    [ty |-> "int*", data |-> IntBytes(t_val.off, HostSize("int*"))]) :
           /\ heap' = WriteBytes(heap, off, o.data)
           /\ ptr_use' = [op |-> "store_pointer",
                          status |-> IF o.status = "trap" THEN "trap" ELSE "ok"]
  /\ UNCHANGED <<heap_base, epoch, old_bases, brk, t_val, t_pp, written>>
  /\ UNCHANGED <<sandbox, val1, val2, ret, backend_calls, convVars, raceVars, fallbackVars>>

\* sandboxed code stores a pointer of its own choice in the location t_pp
\* points to
SandboxStorePointer(o) ==
  /\ t_pp # None /\ SettingUp
  /\ heap' = WriteBytes(heap, t_pp.off, IntBytes(o, SbxSize(sandbox.kind, "int*")))
  /\ UNCHANGED <<heap_base, epoch, old_bases, brk, t_val, t_pp, written, ptr_use>>
  /\ UNCHANGED <<sandbox, val1, val2, ret, backend_calls, convVars, raceVars, fallbackVars>>

\* ret = sandbox_invoke(sandbox, test_array_arg, t_val, count): the pointer
\* is passed as its offset, the count as a sandbox int, and the backend runs
\* test_array_arg_internal on the sandbox memory
InvokeSumArray(count) ==
  /\ t_val # None /\ MemRunning
  /\ LET c == invoke_process_param(sandbox.kind, [kind |-> "raw", ty |-> "int",
                                                  v |-> IntBytes(count, HostSize("int"))])
     IN  IF t_val.off + HostSize("int") * count > HeapSize
         THEN ptr_use' = [op |-> "invoke", status |-> "fault", count |-> count]
         ELSE LET h == invoke_process_return("int",
                         test_array_arg_internal(heap, PointerRep(t_val), c.val))
              IN  ptr_use' = [op |-> "invoke",
                              status |-> IF h.ok THEN "ok" ELSE "conversion_error",
                              count |-> count,
                              t |-> tainted_relocatable("int", h.val)]
  /\ UNCHANGED <<heap_base, epoch, old_bases, heap, brk, t_val, t_pp, written>>
  /\ UNCHANGED <<sandbox, val1, val2, ret, backend_calls, convVars, raceVars, fallbackVars>>

\* the backend moves the heap: a new base, the next epoch; the contents stay
\* at their offsets
Relocate(b) ==
  /\ sandbox.created /\ SettingUp
  /\ epoch < MaxEpoch
  /\ b # heap_base
  /\ heap_base' = b
  /\ epoch' = epoch + 1
  /\ old_bases' = old_bases \cup {heap_base}
  /\ UNCHANGED <<heap, brk, t_val, t_pp, written, ptr_use>>
  /\ UNCHANGED <<sandbox, val1, val2, ret, backend_calls, convVars, raceVars, fallbackVars>>

\* the record of one use of a pointer: the offset used, the host address it
\* resolved to, and the heap base, epoch and earlier bases at that time
PointerUse(op, o, addr) ==
  [op |-> op, status |-> "ok", o |-> o, addr |-> addr, base |-> heap_base,
   epoch |-> epoch, old |-> old_bases \ {heap_base},
   back |-> get_sandboxed_pointer(heap_base, addr)]

\* (*t_pp).UNSAFE_unverified(sandbox)
UnverifiedPointer ==
  /\ t_pp # None /\ MemRunning
  /\ LET data == ReadBytes(heap, t_pp.off, SbxSize(sandbox.kind, "int*"))
     IN  ptr_use' = PointerUse("UNSAFE_unverified", BytesNat(data),
                               tainted_volatile_UNSAFE_unverified_ptr(heap_base, data))
  /\ UNCHANGED <<heap_base, epoch, old_bases, heap, brk, t_val, t_pp, written>>
  /\ UNCHANGED <<sandbox, val1, val2, ret, backend_calls, convVars, raceVars, fallbackVars>>

\* **t_pp: operator* of the tainted_volatile<int*> t_pp points to
DerefVolatile ==
  /\ t_pp # None /\ MemRunning
  /\ LET data == ReadBytes(heap, t_pp.off, SbxSize(sandbox.kind, "int*"))
     IN  ptr_use' = PointerUse("deref_volatile", BytesNat(data),
                               tainted_volatile_deref(data))
  /\ UNCHANGED <<heap_base, epoch, old_bases, heap, brk, t_val, t_pp, written>>
  /\ UNCHANGED <<sandbox, val1, val2, ret, backend_calls, convVars, raceVars, fallbackVars>>

\* *t_val: operator* of the tainted pointer
DerefTainted ==
  /\ t_val # None /\ MemRunning
  /\ ptr_use' = PointerUse("deref_tainted", t_val.off, tainted_deref(heap_base, t_val))
  /\ UNCHANGED <<heap_base, epoch, old_bases, heap, brk, t_val, t_pp, written>>
  /\ UNCHANGED <<sandbox, val1, val2, ret, backend_calls, convVars, raceVars, fallbackVars>>

\* the pointer p of a wrapper kind: t_val itself, or the tainted_volatile
\* pointer *t_pp; its offset and the host address operator* resolves it to
PointerOffset(kind) ==
  IF kind = "tainted" THEN t_val.off
  ELSE BytesNat(ReadBytes(heap, t_pp.off, SbxSize(sandbox.kind, "int*")))

PointerTarget(kind) ==
  IF kind = "tainted" THEN tainted_deref(heap_base, t_val)
  ELSE tainted_volatile_deref(ReadBytes(heap, t_pp.off, SbxSize(sandbox.kind, "int*")))

\* &(*p): operator& of the tainted_volatile that operator* of p refers to
AddrOfDeref(kind) ==
  /\ MemRunning
  /\ IF kind = "tainted" THEN t_val # None ELSE t_pp # None
  /\ LET r == tainted_volatile_addr_of(heap_base, PointerTarget(kind))
     IN  ptr_use' = [op |-> "addr_of_deref", kind |-> kind,
                     status |-> IF r.ok THEN "ok" ELSE "bounds_error",
                     o |-> PointerOffset(kind), off |-> r.off]
  /\ UNCHANGED <<heap_base, epoch, old_bases, heap, brk, t_val, t_pp, written>>
  /\ UNCHANGED <<sandbox, val1, val2, ret, backend_calls, convVars, raceVars, fallbackVars>>

\* *(&L) for the tainted_volatile L that operator* of p refers to: operator&
\* of L, then operator* of the tainted pointer it returns
DerefAddrOf(kind) ==
  /\ MemRunning
  /\ IF kind = "tainted" THEN t_val # None ELSE t_pp # None
  /\ LET r == tainted_volatile_addr_of(heap_base, PointerTarget(kind))
     IN  ptr_use' = [op |-> "deref_addr_of", kind |-> kind,
                     status |-> IF r.ok THEN "ok" ELSE "bounds_error",
                     o |-> PointerOffset(kind),
                     loc |-> PointerTarget(kind),
                     addr |-> tainted_deref(heap_base, [off |-> r.off])]
  /\ UNCHANGED <<heap_base, epoch, old_bases, heap, brk, t_val, t_pp, written>>
  /\ UNCHANGED <<sandbox, val1, val2, ret, backend_calls, convVars, raceVars, fallbackVars>>

NextMem ==
  \/ create_sandbox("test_ptr")
  \/ malloc_in_sandbox_int
  \/ malloc_in_sandbox_ptr
  \/ \E v \in IntValues : WriteThroughPointer(v)
  \/ StorePointer
  \/ \E o \in 0..HeapSize : SandboxStorePointer(o)
  \/ \E count \in 0..MaxCount : InvokeSumArray(count)
  \/ \E b \in HeapBases : Relocate(b)
  \/ UnverifiedPointer
  \/ DerefVolatile
  \/ DerefTainted
  \/ \E kind \in {"tainted", "tainted_volatile"} : AddrOfDeref(kind)
  \/ \E kind \in {"tainted", "tainted_volatile"} : DerefAddrOf(kind)

SpecMem == Init /\ [][NextMem]_vars

-----------------------------------------------------------------------------
(* Claims on sandbox memory and pointers, checked under SpecMem.           *)

\* C3: after malloc_in_sandbox<int>() and *t_val = v, sandbox_invoke of the
\* sum-array function with t_val and the count 1 returns a tainted value
\* whose UNSAFE_unverified() is v.
C3_WriteThenSum ==
  (ptr_use.op = "invoke" /\ ptr_use.count = 1 /\ written # None)
  => /\ ptr_use.status = "ok"
     /\ tainted_UNSAFE_unverified(ptr_use.t) = written.v

\* C7: operator* and operator& are inverses: for a pointer p holding an
\* in-bounds offset o, &(*p) is a tainted pointer holding o, and *(&L) is
\* the location L itself.
C7_DerefAddrOfInverse ==
  /\ (ptr_use.op = "addr_of_deref" /\ ptr_use.o < HeapSize)
       => (ptr_use.status = "ok" /\ ptr_use.off = ptr_use.o)
  /\ (ptr_use.op = "deref_addr_of" /\ ptr_use.o < HeapSize)
       => (ptr_use.status = "ok" /\ ptr_use.addr = ptr_use.loc)

\* C8: after any relocations, UNSAFE_unverified(sandbox) of a pointer and
\* operator* of a tainted pointer resolve an offset o to the heap base of
\* the time of the use plus o, and no use of a pointer resolves to the base
\* of an earlier epoch plus o.
C8_RelocationSafe ==
  /\ ptr_use.op \in {"UNSAFE_unverified", "deref_tainted"}
       => ptr_use.addr = ptr_use.base + ptr_use.o
  /\ ptr_use.op \in {"UNSAFE_unverified", "deref_tainted", "deref_volatile"}
       => \A b \in ptr_use.old : ptr_use.addr # b + ptr_use.o

\* C8 witness: an offset obtained at epoch 0 was translated after the heap
\* had moved twice, the last time to 48
C8_Witness ==
  /\ ptr_use.op = "UNSAFE_unverified" /\ ptr_use.epoch = 2
  /\ t_val # None /\ t_val.epoch = 0 /\ ptr_use.o = t_val.off /\ ptr_use.o = 4
  /\ ptr_use.base = 48 /\ ptr_use.addr = 52 /\ ptr_use.old = {16, 32}

\* C9: for an offset o in [0, heap_size), translating the host address of o
\* back gives o; an offset outside the heap gives a bounds error.
C9_PointerRoundTrip ==
  ptr_use.op = "UNSAFE_unverified" =>
    /\ ptr_use.o < HeapSize => (ptr_use.back.ok /\ ptr_use.back.off = ptr_use.o)
    /\ ptr_use.o >= HeapSize => ~ptr_use.back.ok

\* C9 witness: the last offset of the heap made the round trip after a
\* relocation
C9_Witness ==
  /\ ptr_use.op = "UNSAFE_unverified" /\ ptr_use.o = 7 /\ ptr_use.epoch = 1
  /\ ptr_use.addr = ptr_use.base + 7 /\ ptr_use.back.ok /\ ptr_use.back.off = 7

-----------------------------------------------------------------------------
(* The host reading a tainted_volatile while sandboxed code writes it.     *)
(* data is a plain member: not atomic, not volatile.  With a concurrent    *)
(* writer the host's load is a data race, and nothing keeps the build from *)
(* splitting it (a 64 bit value on a 32 bit host, an unaligned location)   *)
(* or repeating it (the range check and the cast of                        *)
(* convert_type_fundamental); the model lets the host read byte by byte.   *)

\* stores of the sandboxed side in one run of the model
MaxWrites == 2

\* reads the host makes of one value in one run of the model
MaxReads == 2

\* the values sandboxed code stores in the location
RaceValues == {<<1, 1, 1, 1>>, <<2, 2, 2, 2>>}

\* sandboxed code stores a whole value in the location
SandboxWrite(data) ==
  /\ vol # None /\ Len(writes) < MaxWrites
  /\ Len(data) = Len(vol.data)
  /\ vol' = [vol EXCEPT !.data = data]
  /\ writes' = Append(writes, data)
  /\ UNCHANGED <<t_host, conv, copy, reads>>
  /\ UNCHANGED <<invokeVars, memVars, fallbackVars>>

\* the host starts to read data: for tainted<T> t = vol (the copy), or for a
\* direct vol.UNSAFE_unverified()
ReadStart(op) ==
  /\ vol # None /\ copy.status = "none"
  /\ op = "direct" => Len(reads) < MaxReads
  /\ copy' = [status |-> "reading", op |-> op, buf |-> <<>>,
              start |-> vol.data, since |-> Len(writes), held |-> {}]
  /\ UNCHANGED <<t_host, vol, conv, writes, reads>>
  /\ UNCHANGED <<invokeVars, memVars, fallbackVars>>

\* the host loads the next byte of data
ReadByte ==
  /\ copy.status = "reading" /\ Len(copy.buf) < Len(vol.data)
  /\ copy' = [copy EXCEPT !.buf = Append(copy.buf, vol.data[Len(copy.buf) + 1])]
  /\ UNCHANGED <<t_host, vol, conv, writes, reads>>
  /\ UNCHANGED <<invokeVars, memVars, fallbackVars>>

\* tainted_relocatable(const TWrap<TOther, TSbx>& aOther): the bytes read are
\* converted and become the data of the tainted copy
CopyFinish ==
  /\ copy.status = "reading" /\ copy.op = "copy" /\ Len(copy.buf) = Len(vol.data)
  /\ LET r == tainted_relocatable_from_wrapper(vol.ty, copy.buf)
     IN  /\ t_host' = r.t
         /\ copy' = [copy EXCEPT !.status = IF r.ok THEN "done" ELSE "conversion_error",
                                 !.held = {copy.start} \cup
                                          {writes[i] : i \in (copy.since + 1)..Len(writes)}]
  /\ UNCHANGED <<vol, conv, writes, reads>>
  /\ UNCHANGED <<invokeVars, memVars, fallbackVars>>

\* vol.UNSAFE_unverified() returns the converted bytes read
DirectFinish ==
  /\ copy.status = "reading" /\ copy.op = "direct" /\ Len(copy.buf) = Len(vol.data)
  /\ reads' = Append(reads, [of |-> "tainted_volatile",
                             r |-> tainted_volatile_UNSAFE_unverified(vol.ty, copy.buf)])
  /\ copy' = None
  /\ UNCHANGED <<t_host, vol, conv, writes>>
  /\ UNCHANGED <<invokeVars, memVars, fallbackVars>>

\* t.UNSAFE_unverified() on the tainted copy
ReadCopy ==
  /\ copy.status = "done"
  /\ Len(SelectSeq(reads, LAMBDA x : x.of = "tainted")) < MaxReads
  /\ reads' = Append(reads, [of |-> "tainted",
                             r |-> [ok |-> TRUE, val |-> tainted_UNSAFE_unverified(t_host)]])
  /\ UNCHANGED <<t_host, vol, conv, copy, writes>>
  /\ UNCHANGED <<invokeVars, memVars, fallbackVars>>

NextRace ==
  \/ create_sandbox("test")
  \/ \E data \in VolValues(SbxSize(sandbox.kind, "uint32_t")) : LocateVolatile("uint32_t", data)
  \/ \E data \in RaceValues : SandboxWrite(data)
  \/ \E op \in {"copy", "direct"} : ReadStart(op)
  \/ ReadByte
  \/ CopyFinish
  \/ DirectFinish
  \/ ReadCopy

SpecRace == Init /\ [][NextRace]_vars

C6_CopyIsStable == [][copy.status = "done" => t_host' = t_host]_vars

\* C6, the hazard: two direct reads of the location returned different values
C6_DoubleReadDiffers ==
  /\ Len(reads) >= 2
  /\ reads[1].of = "tainted_volatile" /\ reads[2].of = "tainted_volatile"
  /\ reads[1].r.val # reads[2].r.val

-----------------------------------------------------------------------------
(* tainted_relocatable<T, TSbx> for an element type that is not            *)
(* fundamental: the specialization of rlbox_tainted_relocatable.hpp        *)
(* 129-158.  It has no data member and no constructor of its own; its      *)
(* raw_host_rep() is abort().  Specializations for concrete classes are    *)
(* generated by rlbox_lib_load_classes and are chosen ahead of it.         *)

\* raw extractions made in one run of the model
MaxCalls == 2

\* element types that are not fundamental: a class, a pointer, an array
NonFundamentalTypes == {"struct", "int*", "int[2]"}

\* element types of a wrapper
ElemTypes == Types \cup NonFundamentalTypes

\* detail::is_fundamental_or_enum_v<T>, on the element types of the model
is_fundamental_or_enum_v(ty) == ty \in Types

\* the specialization of tainted_relocatable the compiler picks for T
specialization(ty, generated) ==
  IF is_fundamental_or_enum_v(ty) THEN "fundamental"
  ELSE IF generated /\ ty = "struct" THEN "generated"
  ELSE "fallback"

\* the object a declaration of tainted<T> makes; the fallback holds nothing
declare_wrapper(ty, generated, v) ==
  [ty |-> ty, specialization |-> specialization(ty, generated),
   data |-> IF specialization(ty, generated) = "fallback" THEN <<>> ELSE v]

\* the values a declaration may hold, per element type
ElemValues(ty) ==
  IF is_fundamental_or_enum_v(ty) THEN ArgValues(ty)
  ELSE {<<5, 0, 0, 0, 7, 0, 0, 0>>, <<1, 0, 0, 0, 2, 0, 0, 0>>}

\* a plausible slip: the fallback returns a value-initialised T
fallback_raw_host_rep_returns(t) == [returned |-> TRUE, val |-> <<0>>]

\* raw_host_rep() const { abort(); } of the non-fundamental specialization
fallback_raw_host_rep(t) == [returned |-> FALSE, val |-> <<>>]

\* UNSAFE_unverified() const { return raw_host_rep(); } of the same
fallback_UNSAFE_unverified(t) == fallback_raw_host_rep(t)

\* op called on the wrapper t, by the specialization t is an object of
extract(t, op) ==
  CASE t.specialization = "fallback" ->
         IF op = "raw_host_rep" THEN fallback_raw_host_rep(t)
         ELSE fallback_UNSAFE_unverified(t)
    [] t.specialization = "fundamental" ->
         [returned |-> TRUE,
          val |-> IF op = "raw_host_rep" THEN raw_host_rep(t)
                  ELSE tainted_UNSAFE_unverified(t)]
    [] OTHER -> [returned |-> TRUE, val |-> t.data]

\* tainted<T> wrapper; or tainted<T> wrapper = v;
DeclareWrapper(ty, generated, v) ==
  /\ ~aborted /\ wrapper = None
  /\ wrapper' = declare_wrapper(ty, generated, v)
  /\ UNCHANGED <<calls, aborted>>
  /\ UNCHANGED notFallbackVars

\* the wrapper goes out of scope
DestroyWrapper ==
  /\ ~aborted /\ wrapper # None
  /\ wrapper' = None
  /\ UNCHANGED <<calls, aborted>>
  /\ UNCHANGED notFallbackVars

\* wrapper.UNSAFE_unverified(), or raw_host_rep() from a friend class
Extract(op) ==
  /\ ~aborted /\ wrapper # None /\ Len(calls) < MaxCalls
  /\ LET r == extract(wrapper, op)
     IN  /\ calls' = Append(calls, [ty |-> wrapper.ty,
                                    specialization |-> wrapper.specialization,
                                    op |-> op, returned |-> r.returned, val |-> r.val])
         /\ aborted' = ~r.returned
  /\ UNCHANGED wrapper
  /\ UNCHANGED notFallbackVars

NextFallback ==
  \/ \E ty \in ElemTypes, generated \in BOOLEAN :
       \E v \in ElemValues(ty) : DeclareWrapper(ty, generated, v)
  \/ DestroyWrapper
  \/ \E op \in {"UNSAFE_unverified", "raw_host_rep"} : Extract(op)

SpecFallback == Init /\ [][NextFallback]_vars

\* C11: a raw extraction (UNSAFE_unverified or raw_host_rep) on a wrapper
\* whose element type is not fundamental and has no generated specialization
\* ends in abort(): it returns no value to the caller, and nothing runs
\* after it.
C11_FallbackExtractionAborts ==
  \A i \in 1..Len(calls) :
    calls[i].specialization = "fallback" =>
      /\ ~calls[i].returned
      /\ calls[i].val = <<>>
      /\ aborted
      /\ i = Len(calls)

\* C11: a fundamental wrapper gave its value, then UNSAFE_unverified on a
\* wrapper of a struct without generated specialization aborted
C11_Witness ==
  /\ aborted
  /\ Len(calls) = 2
  /\ calls[1].specialization = "fundamental" /\ calls[1].returned
  /\ calls[2].specialization = "fallback" /\ calls[2].ty = "struct"
  /\ calls[2].op = "UNSAFE_unverified"

-----------------------------------------------------------------------------
(* The assignment operators of tainted_volatile_standard, under SpecConv.  *)

\* C12: every assignment into a tainted_volatile location, from a tainted
\* wrapper or from a raw value, of a value the sandbox type can hold
\* completes: the location then holds the sandbox representation of the
\* value, and the operator has returned the reference to the wrapper.
C12_AssignStoresAndReturns ==
  (/\ conv.op \in {"assign_raw", "assign_wrapper"}
   /\ FitsSandbox(vol.ty, conv.v))
  => /\ conv.status = "returned"
     /\ vol.data = raw_sandboxed_rep(sandbox.kind, tainted_relocatable(vol.ty, conv.v)).val

\* C12, what holds of every build: an assignment that leaves the location
\* changed has stored the sandbox representation of the value assigned
C12_StoreIsLowered ==
  (conv.op \in {"assign_raw", "assign_wrapper"} /\ vol.data # conv.before)
  => /\ FitsSandbox(vol.ty, conv.v)
     /\ vol.data = raw_sandboxed_rep(sandbox.kind, tainted_relocatable(vol.ty, conv.v)).val

====
